---------------------------- MODULE Spec2Model ----------------------------
(***************************************************************************)
(* The Lemmy engine of searx (searx/engines/lemmy.py): request builds the *)
(* search URL from the query, the page number and the module               *)
(* configuration (base_url, lemmy_type); response maps the JSON answer of  *)
(* the Lemmy instance to result items, one per element of the array the    *)
(* configured type selects.                                                *)
(*                                                                         *)
(* Python values are modelled as follows.  A str that is encoded or        *)
(* decoded is a sequence of characters (one-character strings); a dict is  *)
(* a function whose DOMAIN is the set of keys present, so a missing key is *)
(* a key outside the DOMAIN and result['k'] on it raises KeyError; a list  *)
(* is a sequence.  A call either returns a value or raises an exception:   *)
(* Return(v) and Raise(e).                                                 *)
(***************************************************************************)
EXTENDS Naturals, Sequences, FiniteSets, TLC

VARIABLES
    base_url,     \* module global base_url
    lemmy_type,   \* module global lemmy_type
    pc,           \* pc[t]: where search t stands
    query,        \* query[t]: the query string the host passes to request
    params,       \* params[t]: the params dict the host passes to request
    wire,         \* wire[t]: the requests of search t handed to the transport
    resp,         \* resp[t]: resp.json() of the answer the transport got
    results       \* results[t]: the outcomes of the calls of response(resp)

vars == <<base_url, lemmy_type, pc, query, params, wire, resp, results>>

-----------------------------------------------------------------------------
(* Bounds of the inputs.                                                   *)

\* Longest query string the host passes.
MaxQueryLen == 2
\* Largest page number the host passes (two digits, so that str(int) is
\* more than a digit).
MaxPage == 11
\* Longest array in a JSON answer.
MaxLen == 2

\* The searches the host runs side by side.
Threads == {1, 2}

\* The four result types of the Lemmy search API.
Kinds == {"Communities", "Users", "Posts", "Comments"}
\* What settings.yml may set lemmy_type to: nothing validates it.
ConfigKinds == Kinds \cup {"Unknown"}
\* What settings.yml may set base_url to.
BaseUrls == {"https://lemmy.ml/", "https://lemmy.world/"}

\* The characters of a query: a letter, the space, the characters with a
\* meaning in a query string, and one outside ASCII.
Alphabet == {"a", " ", "&", "=", "+", "%", "é"}

\* Python's None.
None == <<>>
\* The empty dict.
EmptyDict == <<>>

Return(v) == [kind |-> "return", value |-> v]
Raise(e) == [kind |-> "raise", exc |-> e]

\* All sequences over S of length at most n.
SeqUpTo(S, n) == UNION {[1..k -> S] : k \in 0..n}

\* The concatenation of the sequences of a sequence of sequences.
RECURSIVE Flatten(_)
Flatten(ss) == IF ss = <<>> THEN <<>> ELSE Head(ss) \o Flatten(Tail(ss))

-----------------------------------------------------------------------------
(* urllib.parse.urlencode, as request uses it.                             *)

\* str(n) of a page number: its decimal digits.
Digit(d) == CASE d = 0 -> "0" [] d = 1 -> "1" [] d = 2 -> "2" [] d = 3 -> "3"
              [] d = 4 -> "4" [] d = 5 -> "5" [] d = 6 -> "6" [] d = 7 -> "7"
              [] d = 8 -> "8" [] d = 9 -> "9"

RECURSIVE str(_)
str(n) == IF n < 10 THEN <<Digit(n)>> ELSE Append(str(n \div 10), Digit(n % 10))

\* quote_plus of one character: letters, digits and _.-~ stay, the space
\* becomes +, every other character becomes %XX for each byte of its UTF-8
\* encoding.  A name without reserved characters (a key of args, a Lemmy
\* type) is one element of the sequence and stays as it is.
quote_char(c) ==
    CASE c = " " -> <<"+">>
      [] c = "&" -> <<"%", "2", "6">>
      [] c = "=" -> <<"%", "3", "D">>
      [] c = "+" -> <<"%", "2", "B">>
      [] c = "%" -> <<"%", "2", "5">>
      [] c = "é" -> <<"%", "C", "3", "%", "A", "9">>
      [] OTHER -> <<c>>

\* quote_plus without the quoting: what pasting the value into the URL does.
quote_plus_raw(s) == s

quote_plus(s) == Flatten([i \in 1..Len(s) |-> quote_char(s[i])])

\* urlencode(args): k=v of every item of the dict, in insertion order,
\* joined by &.
RECURSIVE urlencode(_)
urlencode(args) ==
    IF args = <<>> THEN <<>>
    ELSE LET item == quote_plus(<<Head(args)[1]>>) \o <<"=">> \o quote_plus(Head(args)[2])
         IN IF Tail(args) = <<>> THEN item
            ELSE item \o <<"&">> \o urlencode(Tail(args))


\* lemmy.py line 67-71: the dict args, in insertion order; urlencode takes
\* str() of every value.
request_args(q, pageno) ==
    << <<"q", q>>, <<"page", str(pageno)>>, <<"type_", <<lemmy_type>>>> >>

\* request with args aliased to params: the keys of args land in params.
request_aliased(q, p) ==
    LET url == <<base_url, "api/v3/search", "?">> \o urlencode(request_args(q, p["pageno"]))
    IN [k \in DOMAIN p \cup {"url", "q"} |->
            IF k = "url" THEN url ELSE IF k = "q" THEN q ELSE p[k]]

\* request(query, params): sets params['url'] and returns params.  The
\* value is the dict params after the call.
request(q, p) ==
    LET url == <<base_url, "api/v3/search", "?">> \o urlencode(request_args(q, p["pageno"]))
    IN [k \in DOMAIN p \cup {"url"} |-> IF k = "url" THEN url ELSE p[k]]

-----------------------------------------------------------------------------
(* The receiving side of the GET: the Lemmy instance splits the URL at the *)
(* first ? and parses the query string (application/x-www-form-urlencoded, *)
(* blank values kept).                                                     *)

\* The index of the first element of s equal to c; 0 when there is none.
IndexOf(s, c) ==
    IF \E i \in 1..Len(s) : s[i] = c
    THEN CHOOSE i \in 1..Len(s) : s[i] = c /\ \A j \in 1..(i - 1) : s[j] # c
    ELSE 0

\* The segments of s between the occurrences of sep.
RECURSIVE Split(_, _)
Split(s, sep) ==
    LET i == IndexOf(s, sep)
    IN IF i = 0 THEN <<s>>
       ELSE <<SubSeq(s, 1, i - 1)>> \o Split(SubSeq(s, i + 1, Len(s)), sep)

\* The character two hexadecimal digits stand for.
HexChar(h1, h2) ==
    CASE h1 = "2" /\ h2 = "0" -> " "
      [] h1 = "2" /\ h2 = "6" -> "&"
      [] h1 = "3" /\ h2 = "D" -> "="
      [] h1 = "2" /\ h2 = "B" -> "+"
      [] h1 = "2" /\ h2 = "5" -> "%"
      [] OTHER -> "?"

\* unquote_plus: + is a space, %XX is a byte, bytes are read as UTF-8.
RECURSIVE unquote_plus(_)
unquote_plus(s) ==
    IF s = <<>> THEN <<>>
    ELSE IF Head(s) = "+" THEN <<" ">> \o unquote_plus(Tail(s))
    ELSE IF Head(s) = "%" /\ Len(s) >= 6 /\ SubSeq(s, 2, 6) = <<"C", "3", "%", "A", "9">>
         THEN <<"é">> \o unquote_plus(SubSeq(s, 7, Len(s)))
    ELSE IF Head(s) = "%" /\ Len(s) >= 3
         THEN <<HexChar(s[2], s[3])>> \o unquote_plus(SubSeq(s, 4, Len(s)))
    ELSE <<Head(s)>> \o unquote_plus(Tail(s))

\* The part of the URL before the first ?.
url_path(url) ==
    LET i == IndexOf(url, "?") IN IF i = 0 THEN url ELSE SubSeq(url, 1, i - 1)

\* The part of the URL after the first ?.
url_query(url) ==
    LET i == IndexOf(url, "?") IN IF i = 0 THEN <<>> ELSE SubSeq(url, i + 1, Len(url))

\* One name=value field of a query string.
parse_field(f) ==
    LET i == IndexOf(f, "=")
    IN IF i = 0 THEN <<unquote_plus(f), <<>> >>
       ELSE <<unquote_plus(SubSeq(f, 1, i - 1)), unquote_plus(SubSeq(f, i + 1, Len(f)))>>

\* The (name, value) pairs of a query string, in order.
parse_qsl(qs) ==
    IF qs = <<>> THEN <<>>
    ELSE LET fields == Split(qs, "&")
         IN [i \in 1..Len(fields) |-> parse_field(fields[i])]

\* The value of the first field called name; <<>> when there is none.
field_value(pairs, name) ==
    IF \E i \in 1..Len(pairs) : pairs[i][1] = <<name>>
    THEN LET i == CHOOSE i \in 1..Len(pairs) :
                      pairs[i][1] = <<name>> /\ \A j \in 1..(i - 1) : pairs[j][1] # <<name>>
         IN pairs[i][2]
    ELSE <<>>

\* int(s) of a string of decimal digits.
DigitValue(c) == CHOOSE d \in 0..9 : Digit(d) = c
RECURSIVE int(_)
int(s) == IF s = <<>> THEN 0 ELSE 10 * int(SubSeq(s, 1, Len(s) - 1)) + DigitValue(s[Len(s)])

-----------------------------------------------------------------------------
(* _format_content: CommonMark to HTML (MarkdownIt with the typographer's  *)
(* replacements and smart quotes), then html_to_text.                      *)

\* The markdown texts of the answers.
Markdown == {"**bold**", "(c) hi"}

\* MarkdownIt("commonmark", {"typographer": True})
\*     .enable(["replacements", "smartquotes"]).render(content)
MarkdownIt_render(content) ==
    CASE content = "" -> ""
      [] content = "**bold**" -> "<p><strong>bold</strong></p>\n"
      [] content = "(c) hi" -> "<p>© hi</p>\n"

\* searx.utils.html_to_text: the text without the tags, stripped.
html_to_text(html) ==
    CASE html = "" -> ""
      [] html = "<p><strong>bold</strong></p>\n" -> "bold"
      [] html = "<p>© hi</p>\n" -> "© hi"

_format_content(content) == html_to_text(MarkdownIt_render(content))

-----------------------------------------------------------------------------
(* response and the four _get_ functions.                                  *)

\* d.get(k, default)
get(d, k, default) == IF k \in DOMAIN d THEN d[k] ELSE default

\* The dict appended for one element of json["communities"].
community_item(result) ==
    IF "community" \notin DOMAIN result THEN Raise("KeyError")
    ELSE LET community == result["community"]
         IN IF "actor_id" \notin DOMAIN community THEN Raise("KeyError")
            ELSE IF "title" \notin DOMAIN community THEN Raise("KeyError")
            ELSE Return([url |-> community["actor_id"],
                         title |-> community["title"],
                         content |-> _format_content(get(community, "description", ""))])

\* The user's dict with result['person']['bio'] in place of .get('bio', '').
user_item_required(result) ==
    IF "person" \notin DOMAIN result THEN Raise("KeyError")
    ELSE LET person == result["person"]
         IN IF "actor_id" \notin DOMAIN person THEN Raise("KeyError")
            ELSE IF "name" \notin DOMAIN person THEN Raise("KeyError")
            ELSE IF "bio" \notin DOMAIN person THEN Raise("KeyError")
            ELSE Return([url |-> person["actor_id"],
                         title |-> person["name"],
                         content |-> _format_content(person["bio"])])

\* The dict appended for one element of json["users"].
user_item(result) ==
    IF "person" \notin DOMAIN result THEN Raise("KeyError")
    ELSE LET person == result["person"]
         IN IF "actor_id" \notin DOMAIN person THEN Raise("KeyError")
            ELSE IF "name" \notin DOMAIN person THEN Raise("KeyError")
            ELSE Return([url |-> person["actor_id"],
                         title |-> person["name"],
                         content |-> _format_content(get(person, "bio", ""))])

\* The dict appended for one element of json["posts"].
post_item(result) ==
    IF "post" \notin DOMAIN result THEN Raise("KeyError")
    ELSE LET post == result["post"]
         IN IF "ap_id" \notin DOMAIN post THEN Raise("KeyError")
            ELSE IF "name" \notin DOMAIN post THEN Raise("KeyError")
            ELSE Return([url |-> post["ap_id"],
                         title |-> post["name"],
                         content |-> _format_content(get(post, "body", ""))])

\* The comment's dict with the title taken from the comment, not the post.
comment_item_own_title(result) ==
    IF "comment" \notin DOMAIN result THEN Raise("KeyError")
    ELSE LET comment == result["comment"]
         IN IF "ap_id" \notin DOMAIN comment THEN Raise("KeyError")
            ELSE IF "content" \notin DOMAIN comment THEN Raise("KeyError")
            ELSE Return([url |-> comment["ap_id"],
                         title |-> comment["ap_id"],
                         content |-> _format_content(comment["content"])])

\* The comment's dict with .get('content', '') in place of ['content'].
comment_item_default(result) ==
    IF "comment" \notin DOMAIN result THEN Raise("KeyError")
    ELSE LET comment == result["comment"]
         IN IF "ap_id" \notin DOMAIN comment THEN Raise("KeyError")
            ELSE IF "post" \notin DOMAIN result THEN Raise("KeyError")
            ELSE IF "name" \notin DOMAIN result["post"] THEN Raise("KeyError")
            ELSE Return([url |-> comment["ap_id"],
                         title |-> result["post"]["name"],
                         content |-> _format_content(get(comment, "content", ""))])

\* The dict appended for one element of json["comments"]; the keys are
\* looked up in the order of the dict display: url, title, content.
comment_item(result) ==
    IF "comment" \notin DOMAIN result THEN Raise("KeyError")
    ELSE LET comment == result["comment"]
         IN IF "ap_id" \notin DOMAIN comment THEN Raise("KeyError")
            ELSE IF "post" \notin DOMAIN result THEN Raise("KeyError")
            ELSE IF "name" \notin DOMAIN result["post"] THEN Raise("KeyError")
            ELSE IF "content" \notin DOMAIN comment THEN Raise("KeyError")
            ELSE Return([url |-> comment["ap_id"],
                         title |-> result["post"]["name"],
                         content |-> _format_content(comment["content"])])

\* Each _get_ function: results = []; for result in json[key]:
\* results.append(item); return results.  loop[i] is the outcome after i
\* elements; an exception of an item ends the loop and the call.
_get_communities(json) ==
    IF "communities" \notin DOMAIN json THEN Raise("KeyError")
    ELSE LET array == json["communities"]
             loop[i \in 0..Len(array)] ==
                 IF i = 0 THEN Return(<<>>)
                 ELSE IF loop[i - 1].kind = "raise" THEN loop[i - 1]
                 ELSE LET it == community_item(array[i])
                      IN IF it.kind = "raise" THEN it
                         ELSE Return(Append(loop[i - 1].value, it.value))
         IN loop[Len(array)]

\* _get_users with results.insert(0, ...) in place of results.append(...).
_get_users_reversed(json) ==
    IF "users" \notin DOMAIN json THEN Raise("KeyError")
    ELSE LET array == json["users"]
             loop[i \in 0..Len(array)] ==
                 IF i = 0 THEN Return(<<>>)
                 ELSE IF loop[i - 1].kind = "raise" THEN loop[i - 1]
                 ELSE LET it == user_item(array[i])
                      IN IF it.kind = "raise" THEN it
                         ELSE Return(<<it.value>> \o loop[i - 1].value)
         IN loop[Len(array)]

_get_users(json) ==
    IF "users" \notin DOMAIN json THEN Raise("KeyError")
    ELSE LET array == json["users"]
             loop[i \in 0..Len(array)] ==
                 IF i = 0 THEN Return(<<>>)
                 ELSE IF loop[i - 1].kind = "raise" THEN loop[i - 1]
                 ELSE LET it == user_item(array[i])
                      IN IF it.kind = "raise" THEN it
                         ELSE Return(Append(loop[i - 1].value, it.value))
         IN loop[Len(array)]

\* _get_posts with json.get("posts", []) in place of json["posts"].
_get_posts_default(json) ==
    LET array == get(json, "posts", <<>>)
        loop[i \in 0..Len(array)] ==
            IF i = 0 THEN Return(<<>>)
            ELSE IF loop[i - 1].kind = "raise" THEN loop[i - 1]
            ELSE LET it == post_item(array[i])
                 IN IF it.kind = "raise" THEN it
                    ELSE Return(Append(loop[i - 1].value, it.value))
    IN loop[Len(array)]

_get_posts(json) ==
    IF "posts" \notin DOMAIN json THEN Raise("KeyError")
    ELSE LET array == json["posts"]
             loop[i \in 0..Len(array)] ==
                 IF i = 0 THEN Return(<<>>)
                 ELSE IF loop[i - 1].kind = "raise" THEN loop[i - 1]
                 ELSE LET it == post_item(array[i])
                      IN IF it.kind = "raise" THEN it
                         ELSE Return(Append(loop[i - 1].value, it.value))
         IN loop[Len(array)]

_get_comments(json) ==
    IF "comments" \notin DOMAIN json THEN Raise("KeyError")
    ELSE LET array == json["comments"]
             loop[i \in 0..Len(array)] ==
                 IF i = 0 THEN Return(<<>>)
                 ELSE IF loop[i - 1].kind = "raise" THEN loop[i - 1]
                 ELSE LET it == comment_item(array[i])
                      IN IF it.kind = "raise" THEN it
                         ELSE Return(Append(loop[i - 1].value, it.value))
         IN loop[Len(array)]

\* response(resp), json being resp.json(): the outcome of the call.
response(json) ==
    IF lemmy_type = "Communities" THEN _get_communities(json)
    ELSE IF lemmy_type = "Users" THEN _get_users(json)
    ELSE IF lemmy_type = "Posts" THEN _get_posts(json)
    ELSE IF lemmy_type = "Comments" THEN _get_comments(json)
    ELSE Raise("ValueError")

-----------------------------------------------------------------------------
(* The inputs: what the host passes to request and what the Lemmy instance *)
(* answers.                                                                *)

\* The query strings of the host.
Queries == SeqUpTo(Alphabet, MaxQueryLen)

\* The page numbers of the host: 1-based.
Pages == 1..MaxPage

\* The params dicts the host passes: the page number, the other request
\* parameters (the method stands for them) and, or not, a url still None.
ParamsDicts ==
    {[pageno |-> n, method |-> "GET"] : n \in Pages}
        \cup {[pageno |-> n, method |-> "GET", url |-> None] : n \in Pages}

\* The values of the fields of the answers.
ActorIds == {"https://x/1", "https://x/2"}
Titles == {"Thread X"}

\* The dicts with some of the keys of keys and, at key k, a value of Val[k].
Dicts(keys, Val) ==
    UNION {{f \in [D -> UNION {Val[k] : k \in keys}] : \A k \in D : f[k] \in Val[k]} :
              D \in SUBSET keys}

\* The array key and the elements of each type.  An element may lack any
\* of its parts and a part any of its fields.
ArrayKey(kind) ==
    CASE kind = "Communities" -> "communities"
      [] kind = "Users" -> "users"
      [] kind = "Posts" -> "posts"
      [] kind = "Comments" -> "comments"

ArrayKeys == {ArrayKey(k) : k \in Kinds}

Elements(kind) ==
    CASE kind = "Communities" ->
            Dicts({"community"},
                  [community |-> Dicts({"actor_id", "title", "description"},
                        [actor_id |-> ActorIds, title |-> Titles, description |-> Markdown])])
      [] kind = "Users" ->
            Dicts({"person"},
                  [person |-> Dicts({"actor_id", "name", "bio"},
                        [actor_id |-> ActorIds, name |-> Titles, bio |-> Markdown])])
      [] kind = "Posts" ->
            Dicts({"post"},
                  [post |-> Dicts({"ap_id", "name", "body"},
                        [ap_id |-> ActorIds, name |-> Titles, body |-> Markdown])])
      [] kind = "Comments" ->
            Dicts({"comment", "post"},
                  [comment |-> Dicts({"ap_id", "content"},
                        [ap_id |-> ActorIds, content |-> Markdown]),
                   post |-> Dicts({"name"}, [name |-> Titles])])

\* The JSON answers to a search of the given type with arrays of at most n
\* elements: the array of the type alone, or beside the other three arrays
\* (each holding an element without any part), or missing.
Responses(kind, n) ==
    IF kind \in Kinds
    THEN LET key == ArrayKey(kind)
             arrays == SeqUpTo(Elements(kind), n)
         IN {[k \in {key} |-> a] : a \in arrays}
              \cup {[k \in ArrayKeys |-> IF k = key THEN a ELSE <<EmptyDict>>] : a \in arrays}
              \cup {[k \in ArrayKeys \ {key} |-> <<>>], EmptyDict}
    ELSE {[k \in ArrayKeys |-> <<>>], EmptyDict}

\* The part and the field each type takes the url, the title and the
\* content of an item from.
UrlPath(kind) ==
    CASE kind = "Communities" -> <<"community", "actor_id">>
      [] kind = "Users" -> <<"person", "actor_id">>
      [] kind = "Posts" -> <<"post", "ap_id">>
      [] kind = "Comments" -> <<"comment", "ap_id">>

TitlePath(kind) ==
    CASE kind = "Communities" -> <<"community", "title">>
      [] kind = "Users" -> <<"person", "name">>
      [] kind = "Posts" -> <<"post", "name">>
      [] kind = "Comments" -> <<"post", "name">>

ContentPath(kind) ==
    CASE kind = "Communities" -> <<"community", "description">>
      [] kind = "Users" -> <<"person", "bio">>
      [] kind = "Posts" -> <<"post", "body">>
      [] kind = "Comments" -> <<"comment", "content">>

\* Whether element e has the field of the path, and the field's value.
HasPath(e, path) == path[1] \in DOMAIN e /\ path[2] \in DOMAIN e[path[1]]
At(e, path) == e[path[1]][path[2]]

AllResponses == [kind \in ConfigKinds |-> Responses(kind, MaxLen)]

\* The inputs of the searches run side by side: two queries, two pages,
\* and the answers of at most one element that hold the array of the type
\* alone, or nothing, the element lacking at most its content field.
ConcQueries == {<<>>, <<"a", " ", "&">>}
ConcParamsDicts == {[pageno |-> n, method |-> "GET"] : n \in {1, 2}}
ConcResponses ==
    [kind \in ConfigKinds |->
        {j \in Responses(kind, 1) :
            /\ kind \in Kinds => DOMAIN j \in {{ArrayKey(kind)}, {}}
            /\ \A k \in DOMAIN j : \A i \in 1..Len(j[k]) :
                  kind \in Kinds =>
                      HasPath(j[k][i], UrlPath(kind)) /\ HasPath(j[k][i], TitlePath(kind))}]

-----------------------------------------------------------------------------
(* The searches.  The host calls request, hands the descriptor to the      *)
(* transport, which sends the GET and gets the answer, and calls response  *)
(* on the answer.                                                          *)

Init ==
    /\ base_url \in BaseUrls
    /\ lemmy_type \in ConfigKinds
    /\ pc = [t \in Threads |-> "idle"]
    /\ query = [t \in Threads |-> <<>>]
    /\ params = [t \in Threads |-> EmptyDict]
    /\ wire = [t \in Threads |-> <<>>]
    /\ resp = [t \in Threads |-> EmptyDict]
    /\ results = [t \in Threads |-> <<>>]

\* The host starts a search: it has the query and the params of the call.
Search(t, qs, ps) ==
    /\ pc[t] = "idle"
    /\ \E q \in qs, p \in ps :
          /\ query' = [query EXCEPT ![t] = q]
          /\ params' = [params EXCEPT ![t] = p]
    /\ pc' = [pc EXCEPT ![t] = "called"]
    /\ UNCHANGED <<base_url, lemmy_type, wire, resp, results>>

\* The call request(query, params) with lemmy_type declared global and
\* assigned in the call.
CallRequest_global(t) ==
    /\ pc[t] = "called"
    /\ params' = [params EXCEPT ![t] = request(query[t], params[t])]
    /\ lemmy_type' = "Posts"
    /\ pc' = [pc EXCEPT ![t] = "requested"]
    /\ UNCHANGED <<base_url, query, wire, resp, results>>

\* The call request(query, params): params is changed in place and
\* returned; nothing else is written.
CallRequest(t) ==
    /\ pc[t] = "called"
    /\ params' = [params EXCEPT ![t] = request(query[t], params[t])]
    /\ pc' = [pc EXCEPT ![t] = "requested"]
    /\ UNCHANGED <<base_url, lemmy_type, query, wire, resp, results>>

\* The transport sends the GET of params['url']; the instance reads the
\* type_ of its query string.  The descriptor is the transport's from here.
Send(t) ==
    /\ pc[t] = "requested"
    /\ wire' = [wire EXCEPT ![t] =
                    <<field_value(parse_qsl(url_query(params[t]["url"])), "type_")>>]
    /\ query' = [query EXCEPT ![t] = <<>>]
    /\ params' = [params EXCEPT ![t] = EmptyDict]
    /\ pc' = [pc EXCEPT ![t] = "sent"]
    /\ UNCHANGED <<base_url, lemmy_type, resp, results>>

\* The type_ the instance read in the request of search t.
sent_type(t) == wire[t][1][1]

\* The answer arrives: its JSON is what resp.json() will return.
\* answers[kind] are the answers to a search of that type.
Receive(t, answers) ==
    /\ pc[t] = "sent"
    /\ \E j \in answers[sent_type(t)] : resp' = [resp EXCEPT ![t] = j]
    /\ pc' = [pc EXCEPT ![t] = "received"]
    /\ UNCHANGED <<base_url, lemmy_type, query, params, wire, results>>

\* The call response(resp) emptying the array it reads (pop in a loop).
CallResponse_consuming(t) ==
    /\ pc[t] \in {"received", "responded"}
    /\ results' = [results EXCEPT ![t] = Append(@, response(resp[t]))]
    /\ resp' = [resp EXCEPT ![t] = [k \in DOMAIN @ |-> <<>>]]
    /\ pc' = [pc EXCEPT ![t] = IF pc[t] = "received" THEN "responded" ELSE "again"]
    /\ UNCHANGED <<base_url, lemmy_type, query, params, wire>>

\* The call response(resp), a first time and, on the same resp, a second.
CallResponse(t) ==
    /\ pc[t] \in {"received", "responded"}
    /\ results' = [results EXCEPT ![t] = Append(@, response(resp[t]))]
    /\ pc' = [pc EXCEPT ![t] = IF pc[t] = "received" THEN "responded" ELSE "again"]
    /\ UNCHANGED <<base_url, lemmy_type, query, params, wire, resp>>

\* The host takes the outcome; the search is over.
Finish(t) ==
    /\ pc[t] \in {"responded", "again"}
    /\ pc' = [pc EXCEPT ![t] = "idle"]
    /\ wire' = [wire EXCEPT ![t] = <<>>]
    /\ resp' = [resp EXCEPT ![t] = EmptyDict]
    /\ results' = [results EXCEPT ![t] = <<>>]
    /\ UNCHANGED <<base_url, lemmy_type, query, params>>

\* One search at a time, over all the inputs.
Next ==
    \E t \in {1} :
        \/ Search(t, Queries, ParamsDicts)
        \/ CallRequest(t)
        \/ Send(t)
        \/ Receive(t, AllResponses)
        \/ CallResponse(t)
        \/ Finish(t)

Spec == Init /\ [][Next]_vars

\* The searches of all the threads, interleaved.
NextConc ==
    \E t \in Threads :
        \/ Search(t, ConcQueries, ConcParamsDicts)
        \/ CallRequest(t)
        \/ Send(t)
        \/ Receive(t, ConcResponses)
        \/ CallResponse(t)
        \/ Finish(t)

SpecConc == Init /\ [][NextConc]_vars

-----------------------------------------------------------------------------
(* The properties.                                                         *)

\* Search t has called response at least once; the outcome of the first
\* call; the array the configured type selects.
Responded(t) == pc[t] \in {"responded", "again"}
outcome(t) == results[t][1]
selected(t) == resp[t][ArrayKey(lemmy_type)]

\* Search t takes a step that is the call of request, or of response.
RequestStep(t) == pc[t] = "called" /\ pc'[t] = "requested"
ResponseStep(t) == pc[t] \in {"received", "responded"} /\ pc'[t] \in {"responded", "again"}
                       /\ pc'[t] # pc[t]

\* C1: with a lemmy_type outside the four types, no request is ever handed
\* to the transport.
C1_NoRequestForUnknownKind ==
    lemmy_type \notin Kinds => \A t \in Threads : wire[t] = <<>>

\* C2: for each of the four types, every query (the empty one too) and
\* every page, the URL request builds is base_url, api/v3/search and a
\* query string that parses back to exactly the three pairs q = the query,
\* page = the page number, type_ = the configured type, in this order.
C2_UrlRoundTrip ==
    \A t \in Threads :
        (pc[t] = "requested" /\ lemmy_type \in Kinds) =>
            LET url == params[t]["url"]
                pairs == parse_qsl(url_query(url))
            IN /\ url_path(url) = <<base_url, "api/v3/search">>
               /\ pairs = << <<<<"q">>, query[t]>>,
                             <<<<"page">>, str(params[t]["pageno"])>>,
                             <<<<"type_">>, <<lemmy_type>>>> >>
               /\ int(pairs[2][2]) = params[t]["pageno"]

C2_Witness ==
    \E t \in Threads :
        /\ pc[t] = "requested"
        /\ lemmy_type = "Comments"
        /\ query[t] = <<"&", "=">>
        /\ params[t]["pageno"] = 11
        /\ params[t]["url"] = <<base_url, "api/v3/search", "?", "q", "=",
                                "%", "2", "6", "%", "3", "D", "&", "page", "=", "1", "1",
                                "&", "type_", "=", "Comments">>

\* C3: every item response returns is built from the element at its index
\* by the table: the url and the title are the fields of UrlPath and
\* TitlePath (for Comments the title is the name of the post), the content
\* is the rendering of the field of ContentPath.
C3_FieldTable ==
    \A t \in Threads :
        (Responded(t) /\ lemmy_type \in Kinds /\ outcome(t).kind = "return") =>
            /\ ArrayKey(lemmy_type) \in DOMAIN resp[t]
            /\ \A i \in 1..Len(outcome(t).value) :
                  LET item == outcome(t).value[i]
                  IN /\ i <= Len(selected(t))
                     /\ HasPath(selected(t)[i], UrlPath(lemmy_type))
                     /\ item.url = At(selected(t)[i], UrlPath(lemmy_type))
                     /\ HasPath(selected(t)[i], TitlePath(lemmy_type))
                     /\ item.title = At(selected(t)[i], TitlePath(lemmy_type))
                     /\ HasPath(selected(t)[i], ContentPath(lemmy_type)) =>
                            item.content = _format_content(At(selected(t)[i], ContentPath(lemmy_type)))
                     /\ lemmy_type = "Comments" =>
                            /\ HasPath(selected(t)[i], <<"post", "name">>)
                            /\ item.title = selected(t)[i]["post"]["name"]

C3_Witness ==
    \E t \in Threads :
        /\ Responded(t)
        /\ lemmy_type = "Comments"
        /\ resp[t] = [comments |-> <<[comment |-> [ap_id |-> "https://x/1", content |-> "**bold**"],
                                      post |-> [name |-> "Thread X"]]>>]
        /\ outcome(t) = Return(<<[url |-> "https://x/1", title |-> "Thread X", content |-> "bold"]>>)

\* C4: the list response returns has one item per element of the selected
\* array, item i coming from element i; an empty array gives an empty list.
C4_OneItemPerElementInOrder ==
    \A t \in Threads :
        (Responded(t) /\ lemmy_type \in Kinds) =>
            /\ outcome(t).kind = "return" =>
                  /\ ArrayKey(lemmy_type) \in DOMAIN resp[t]
                  /\ Len(outcome(t).value) = Len(selected(t))
                  /\ \A i \in 1..Len(selected(t)) :
                        /\ HasPath(selected(t)[i], UrlPath(lemmy_type))
                        /\ outcome(t).value[i].url = At(selected(t)[i], UrlPath(lemmy_type))
            /\ (ArrayKey(lemmy_type) \in DOMAIN resp[t] /\ selected(t) = <<>>) =>
                  outcome(t) = Return(<<>>)

C4_Witness ==
    \E t \in Threads :
        /\ Responded(t)
        /\ lemmy_type = "Users"
        /\ outcome(t).kind = "return"
        /\ Len(outcome(t).value) = 2
        /\ outcome(t).value[1].url = "https://x/2"
        /\ outcome(t).value[2].url = "https://x/1"

\* An element of the selected array with the fields of the url and of the
\* title.
HasRequired(e) == HasPath(e, UrlPath(lemmy_type)) /\ HasPath(e, TitlePath(lemmy_type))

\* C5: for Communities, Users and Posts, when the array is there and every
\* element has its url and title fields, response returns; an element
\* without description, bio or body gives an item whose content is the
\* rendering of the empty string, and the others are mapped as usual.
C5_OptionalTextDefaultsToEmpty ==
    \A t \in Threads :
        (/\ Responded(t)
         /\ lemmy_type \in {"Communities", "Users", "Posts"}
         /\ ArrayKey(lemmy_type) \in DOMAIN resp[t]
         /\ \A i \in 1..Len(selected(t)) : HasRequired(selected(t)[i])) =>
            /\ outcome(t).kind = "return"
            /\ Len(outcome(t).value) = Len(selected(t))
            /\ \A i \in 1..Len(selected(t)) :
                  outcome(t).value[i].content =
                      IF HasPath(selected(t)[i], ContentPath(lemmy_type))
                      THEN _format_content(At(selected(t)[i], ContentPath(lemmy_type)))
                      ELSE _format_content("")

C5_Witness ==
    \E t \in Threads :
        /\ Responded(t)
        /\ lemmy_type = "Users"
        /\ resp[t] = [users |-> <<[person |-> [actor_id |-> "https://x/1", name |-> "Thread X"]],
                                  [person |-> [actor_id |-> "https://x/2", name |-> "Thread X",
                                               bio |-> "(c) hi"]]>>]
        /\ outcome(t) = Return(<<[url |-> "https://x/1", title |-> "Thread X", content |-> ""],
                                 [url |-> "https://x/2", title |-> "Thread X", content |-> "© hi"]>>)

\* C6: for Comments, when an element of the comments array has no
\* comment.content, response raises KeyError (the lookup failure the
\* specification calls MalformedResponse) and returns no list, whatever
\* the elements before it.
C6_CommentWithoutContentRaises ==
    \A t \in Threads :
        (/\ Responded(t)
         /\ lemmy_type = "Comments"
         /\ "comments" \in DOMAIN resp[t]
         /\ \E i \in 1..Len(resp[t]["comments"]) :
                ~HasPath(resp[t]["comments"][i], <<"comment", "content">>)) =>
            outcome(t) = Raise("KeyError")

C6_Witness ==
    \E t \in Threads :
        /\ Responded(t)
        /\ lemmy_type = "Comments"
        /\ resp[t] = [comments |-> <<[comment |-> [ap_id |-> "https://x/1", content |-> "**bold**"],
                                      post |-> [name |-> "Thread X"]],
                                     [comment |-> [ap_id |-> "https://x/2"],
                                      post |-> [name |-> "Thread X"]]>>]
        /\ outcome(t) = Raise("KeyError")

\* C7: when the array of the configured type is not in the answer,
\* response raises KeyError, the other arrays being there or not; when it
\* is, the outcome is that of the answer holding this array alone, and the
\* call returns if every element has its fields.
C7_OnlySelectedArrayIsRead ==
    \A t \in Threads :
        (Responded(t) /\ lemmy_type \in Kinds) =>
            LET key == ArrayKey(lemmy_type)
            IN /\ key \notin DOMAIN resp[t] => outcome(t) = Raise("KeyError")
               /\ key \in DOMAIN resp[t] =>
                     /\ outcome(t) = response([k \in {key} |-> resp[t][k]])
                     /\ (\A i \in 1..Len(selected(t)) :
                            /\ HasRequired(selected(t)[i])
                            /\ HasPath(selected(t)[i], ContentPath(lemmy_type)))
                         => outcome(t).kind = "return"

C7_Witness ==
    \E t \in Threads :
        /\ Responded(t)
        /\ lemmy_type = "Posts"
        /\ resp[t] = [communities |-> <<>>, users |-> <<>>, comments |-> <<>>]
        /\ outcome(t) = Raise("KeyError")

\* C8: a call of response leaves the JSON and the configuration as they
\* were, and the second call on the same JSON has the outcome of the first.
C8_ResponseIsRepeatable ==
    [][\A t \in Threads :
          ResponseStep(t) =>
              /\ resp'[t] = resp[t]
              /\ base_url' = base_url
              /\ lemmy_type' = lemmy_type
              /\ pc'[t] = "again" => results'[t] = <<results[t][1], results[t][1]>>]_vars

C8_Witness ==
    \E t \in Threads :
        /\ pc[t] = "again"
        /\ Len(results[t]) = 2
        /\ results[t][1] = results[t][2]
        /\ results[t][1].kind = "return"
        /\ Len(results[t][1].value) = 2
        /\ results[t][1].value[1] # results[t][1].value[2]

\* C9 as stated: request leaves the configuration, the wire, the query and
\* the params dict it was given as they were.
C9_RequestLeavesParams ==
    [][\A t \in Threads :
          RequestStep(t) =>
              /\ base_url' = base_url
              /\ lemmy_type' = lemmy_type
              /\ wire' = wire
              /\ query'[t] = query[t]
              /\ params'[t] = params[t]]_vars

\* C9 amended: request hands nothing to the transport and leaves the
\* configuration, the query and every key of params but 'url' as they
\* were; its one effect is to set params['url'] in the dict it was given.
C9_RequestSetsOnlyUrl ==
    [][\A t \in Threads :
          RequestStep(t) =>
              /\ base_url' = base_url
              /\ lemmy_type' = lemmy_type
              /\ wire' = wire
              /\ query'[t] = query[t]
              /\ DOMAIN params'[t] = DOMAIN params[t] \cup {"url"}
              /\ \A k \in DOMAIN params[t] \ {"url"} : params'[t][k] = params[t][k]
              /\ params'[t]["url"] # None]_vars

C9_Witness ==
    \E t \in Threads :
        /\ pc[t] = "requested"
        /\ wire[t] = <<>>
        /\ query[t] = <<"a", " ">>
        /\ params[t] = [pageno |-> 2, method |-> "GET",
                        url |-> <<base_url, "api/v3/search", "?", "q", "=", "a", "+",
                                  "&", "page", "=", "2", "&", "type_", "=", lemmy_type>>]

\* C10: in every interleaving of the searches no step writes base_url or
\* lemmy_type, the URL of each request and the outcome of each response are
\* those of the call on its own arguments, and the type_ a search sent is
\* the type its response dispatches on.
C10_InterleavedCallsAgree ==
    /\ [][base_url' = base_url /\ lemmy_type' = lemmy_type]_vars
    /\ [](\A t \in Threads :
            /\ pc[t] = "requested" => params[t] = request(query[t], params[t])
            /\ wire[t] # <<>> => sent_type(t) = lemmy_type
            /\ \A i \in 1..Len(results[t]) : results[t][i] = response(resp[t]))

C10_Witness ==
    /\ pc[1] = "requested"
    /\ query[1] = <<"a", " ", "&">>
    /\ pc[2] = "again"
    /\ lemmy_type = "Comments"
    /\ results[2][2].kind = "return"
    /\ Len(results[2][2].value) = 1

=============================================================================
